---- MODULE Spec2Model ----
(***************************************************************************)
(* A model of scrape.py: configuration resolution, the retrying HTTP      *)
(* fetch, counter extraction and the CSV append, wired together by main.   *)
(*                                                                         *)
(* Conventions.                                                            *)
(*  - A Python Optional is a sequence of length <= 1: None is <<>>, a      *)
(*    present value v is <<v>>.                                            *)
(*  - A Python str is the sequence of its characters.  A character is a   *)
(*    string: a printable ASCII character is itself, tab, line feed, form  *)
(*    feed and carriage return are "\t", "\n", "\f" and "\r", and any      *)
(*    other character is named by its code point, Chr(1635) = "chr(1635)". *)
(*  - The content of the output file is the sequence of its bytes, the     *)
(*    UTF-8 encoding of the text written.  A byte below 128 is the         *)
(*    character it encodes; a byte n >= 128 is Byte(n) = "byte(n)".        *)
(*  - A Python float is [kind, neg, m, e]: kind "fin" for the value        *)
(*    (-1)^neg * m * 10^e with m >= 0 not divisible by 10 (0.0 is m = 0,   *)
(*    e = 0; neg tells -0.0 from 0.0), kind "inf" for an infinity, kind    *)
(*    "nan" for a NaN.  Overflow to an infinity and underflow to zero are  *)
(*    modelled; the rounding of a finite non-zero value to binary64 is     *)
(*    not: the value is held as the decimal that was written.              *)
(***************************************************************************)
EXTENDS Integers, Sequences, FiniteSets, TLC

VARIABLES
    pc,          \* where main stands: "idle", "fetching", "writing", "done"
    args,        \* the parsed command line of the current run
    env,         \* the environment of the current run
    cfg,         \* the resolved ScrapeConfig
    raised,      \* an exception left main unhandled
    status,      \* the exit status (meaningful when pc = "done")
    retry,       \* the Retry counters of the request in progress
    responses,   \* the server's answers to the attempts of the current fetch
    response,    \* main's `response`: None, or the status code of the response
    html,        \* the parsed body of the response
    value,       \* main's `value`
    dirExists,   \* the parent directory of the output file exists
    ts,          \* main's `ts`
    file,        \* the output file
    file0,       \* the output file as the current run found it
    runs,        \* invocations started so far
    appended,    \* the rows of the append_csv calls that succeeded, in order
    writeFailed, \* some append_csv call has failed
    failStep     \* the step at which the current run's append_csv failed

vars == <<pc, args, env, cfg, raised, status, retry, responses, response, html, value,
          ts, dirExists, file, file0, runs, appended, writeFailed, failStep>>

(***************************************************************************)
(* Bounds of the model.                                                    *)
(***************************************************************************)
\* invocations of main in one behaviour
MaxRuns == 2
\* explicit --retries values range over 0..MaxRetries
MaxRetries == 2
\* length of one text node of the marker element
MaxStrLen == 3
\* number of text nodes of the marker element
MaxNodes == 2
\* bytes of the buffer that a failing flush can leave in the file, in the runs
\* of Spec (SpecWrite lets the flush stop after any number of bytes)
MaxCut == 1

(***************************************************************************)
(* Python values.                                                          *)
(***************************************************************************)
None == <<>>
Some(v) == <<v>>

\* the character with code point n, for the characters that are not written
\* as themselves
Chr(n) == "chr(" \o ToString(n) \o ")"

AsciiDigits == <<"0", "1", "2", "3", "4", "5", "6", "7", "8", "9">>

\* The code points of the digits zero of the other decimal digit ranges of
\* Unicode (category Nd); the digits 0..9 of a range are consecutive.
NonAsciiZeros ==
    {1632, 1776, 1984, 2406, 2534, 2662, 2790, 2918, 3046, 3174, 3302, 3430, 3558,
     3664, 3792, 3872, 4160, 4240, 6112, 6160, 6470, 6608, 6784, 6800, 6992, 7088,
     7232, 7248, 42528, 43216, 43264, 43472, 43504, 43600, 44016, 65296, 66720,
     68912, 69734, 69872, 69942, 70096, 70384, 70736, 70864, 71248, 71360, 71472,
     71904, 72016, 72784, 73040, 73120, 92768, 92864, 93008, 120782, 120792,
     120802, 120812, 120822, 123200, 123632, 125264, 130032}

\* \d of a str pattern, and the digits int() and float() read: every Unicode
\* decimal digit
Digits == {AsciiDigits[k + 1] : k \in 0..9}
          \cup {Chr(z + k) : z \in NonAsciiZeros, k \in 0..9}

\* the value of a decimal digit
DigitVal ==
    [c \in Digits |->
        CHOOSE k \in 0..9 :
            c = AsciiDigits[k + 1] \/ \E z \in NonAsciiZeros : c = Chr(z + k)]

\* the code points of the whitespace characters that are not written as
\* themselves
WhitespaceCodes ==
    {11, 28, 29, 30, 31, 133, 160, 5760, 8232, 8233, 8239, 8287, 12288}
    \cup (8192..8202)

\* the characters str.strip() removes (str.isspace)
Whitespace ==
    {"\t", "\n", "\f", "\r", " "} \cup {Chr(n) : n \in WhitespaceCodes}

\* the characters int() and float() skip around a number: the same, but for
\* the four ASCII separators 28..31
NumWhitespace == Whitespace \ {Chr(28), Chr(29), Chr(30), Chr(31)}

\* the code points of the characters named by Chr: the whitespace, the digits
\* and, for a letter outside ASCII, LATIN SMALL LETTER E WITH ACUTE
CodePoints ==
    WhitespaceCodes \cup {z + k : z \in NonAsciiZeros, k \in 0..9} \cup {233}

\* the characters named by Chr
Named == {Chr(n) : n \in CodePoints}

\* ord(c) of a character named by Chr
Ord == [c \in Named |-> CHOOSE n \in CodePoints : c = Chr(n)]

RECURSIVE LStrip(_, _)
LStrip(s, ws) == IF s # <<>> /\ Head(s) \in ws THEN LStrip(Tail(s), ws) ELSE s

RECURSIVE RStrip(_, _)
RStrip(s, ws) == IF s # <<>> /\ s[Len(s)] \in ws
                 THEN RStrip(SubSeq(s, 1, Len(s) - 1), ws) ELSE s

\* str.strip()
Strip(s) == RStrip(LStrip(s, Whitespace), Whitespace)

\* the text of a number without the whitespace around it
NumStrip(s) == RStrip(LStrip(s, NumWhitespace), NumWhitespace)

AllDigits(s) == \A i \in 1..Len(s) : s[i] \in Digits

RECURSIVE DigitsValue(_)
DigitsValue(s) == IF s = <<>> THEN 0
                  ELSE DigitsValue(SubSeq(s, 1, Len(s) - 1)) * 10 + DigitVal[s[Len(s)]]

ValueError == [ok |-> FALSE, v |-> 0]
Ok(v) == [ok |-> TRUE, v |-> v]

Unsigned(t) == IF t # <<>> /\ t[1] \in {"+", "-"} THEN Tail(t) ELSE t
Sign(t) == IF t # <<>> /\ t[1] = "-" THEN -1 ELSE 1

\* an underscore of a numeric literal stands between two digits
UnderscoresOk(u) ==
    \A i \in 1..Len(u) :
        u[i] = "_" => /\ 1 < i /\ i < Len(u)
                      /\ u[i - 1] \in Digits /\ u[i + 1] \in Digits
IsNotUnderscore(c) == c # "_"
WithoutUnderscores(u) == SelectSeq(u, IsNotUnderscore)

\* int(<str>): optional surrounding whitespace, optional sign, one or more
\* digits, single underscores between digits
IntOfDigits(sign, v) ==
    IF v # <<>> /\ AllDigits(v) THEN Ok(sign * DigitsValue(v)) ELSE ValueError
IntOfUnsigned(sign, u) ==
    IF UnderscoresOk(u) THEN IntOfDigits(sign, WithoutUnderscores(u)) ELSE ValueError
IntOfStripped(t) == IntOfUnsigned(Sign(t), Unsigned(t))
IntOfStr(s) == IntOfStripped(NumStrip(s))

Fin(neg, m, e) == [kind |-> "fin", neg |-> neg, m |-> m, e |-> e]
Inf(neg) == [kind |-> "inf", neg |-> neg, m |-> 0, e |-> 0]
NaN == [kind |-> "nan", neg |-> FALSE, m |-> 0, e |-> 0]

RECURSIVE Pow10(_)
Pow10(n) == IF n = 0 THEN 1 ELSE 10 * Pow10(n - 1)

RECURSIVE NumDigits(_)
NumDigits(m) == IF m < 10 THEN 1 ELSE 1 + NumDigits(m \div 10)

RECURSIVE Normalise(_, _)
Normalise(m, e) == IF m = 0 THEN [m |-> 0, e |-> 0]
                   ELSE IF m % 10 = 0 THEN Normalise(m \div 10, e + 1)
                   ELSE [m |-> m, e |-> e]

\* the first nine digits of m, a number of d <= 10 digits, and the tenth
Lead9(m, d) == IF d <= 9 THEN m * Pow10(9 - d) ELSE m \div 10
Tenth(m, d) == IF d = 10 THEN m % 10 ELSE 0

\* The float that the decimal (-1)^neg * m * 10^e converts to, m > 0 a number
\* of d digits not divisible by 10: an infinity from 2^1024 - 2^970 =
\* 1.797693134862315807...e308 on, zero up to 2^-1075 =
\* 2.470328229206232720...e-324, the decimal itself in between.
Ranged(neg, m, e, d) ==
    IF \/ d + e > 309
       \/ /\ d + e = 309
          /\ \/ Lead9(m, d) > 179769313
             \/ Lead9(m, d) = 179769313 /\ Tenth(m, d) >= 5
    THEN Inf(neg)
    ELSE IF d + e < -323 \/ (d + e = -323 /\ Lead9(m, d) <= 247032822)
    THEN Fin(neg, 0, 0)
    ELSE Fin(neg, m, e)

RoundedNormal(neg, n) ==
    IF n.m = 0 THEN Fin(neg, 0, 0) ELSE Ranged(neg, n.m, n.e, NumDigits(n.m))

\* the float that the decimal (-1)^neg * m * 10^e converts to
Rounded(neg, m, e) == RoundedNormal(neg, Normalise(m, e))

\* a word in any mix of upper and lower case
Matches(u, word) == Len(u) = Len(word) /\ \A i \in 1..Len(u) : u[i] \in word[i]
INF == <<{"i", "I"}, {"n", "N"}, {"f", "F"}>>
INFINITY == INF \o <<{"i", "I"}, {"n", "N"}, {"i", "I"}, {"t", "T"}, {"y", "Y"}>>
NAN == <<{"n", "N"}, {"a", "A"}, {"n", "N"}>>

Least(S) == CHOOSE x \in S : \A y \in S : x <= y

\* the position of the first of the characters cs in v, Len(v) + 1 without one
FirstOf(v, cs) == Least({i \in 1..(Len(v) + 1) : i = Len(v) + 1 \/ v[i] \in cs})

\* the number with integer digits ip, fraction digits fp and, with hasExp,
\* the exponent esign * exd
FloatOfParts(neg, ip, fp, hasExp, esign, exd) ==
    IF /\ hasExp => (exd # <<>> /\ AllDigits(exd))
       /\ AllDigits(ip) /\ AllDigits(fp)
       /\ Len(ip) + Len(fp) >= 1
    THEN Ok(Rounded(neg, DigitsValue(ip \o fp),
                    (IF hasExp THEN esign * DigitsValue(exd) ELSE 0) - Len(fp)))
    ELSE ValueError

\* mant is what stands before the exponent, split at its first "."; a second
\* "." is left in the fraction
FloatOfMantissa(neg, mant, q, hasExp, ex) ==
    FloatOfParts(neg, SubSeq(mant, 1, q - 1), SubSeq(mant, q + 1, Len(mant)),
                 hasExp, Sign(ex), Unsigned(ex))

\* v split at p, the position of its first "e" or "E"
FloatOfSplit(neg, v, p) ==
    FloatOfMantissa(neg, SubSeq(v, 1, p - 1), FirstOf(SubSeq(v, 1, p - 1), {"."}),
                    p <= Len(v), SubSeq(v, p + 1, Len(v)))

FloatOfDecimal(neg, v) == FloatOfSplit(neg, v, FirstOf(v, {"e", "E"}))

FloatOfUnsigned(neg, u) ==
    IF Matches(u, INF) \/ Matches(u, INFINITY) THEN Ok(Inf(neg))
    ELSE IF Matches(u, NAN) THEN Ok(NaN)
    ELSE IF ~UnderscoresOk(u) THEN ValueError
    ELSE FloatOfDecimal(neg, WithoutUnderscores(u))

FloatOfStripped(t) == FloatOfUnsigned(t # <<>> /\ t[1] = "-", Unsigned(t))

\* float(<str>): optional surrounding whitespace and sign, then inf, infinity
\* or nan, or digits with an optional "." and an optional exponent, single
\* underscores between digits; at least one digit before the exponent
FloatOfStr(s) == FloatOfStripped(NumStrip(s))

\* A value os.getenv(name, default) can return here: the variable's text, or the
\* (numeric) default handed in.
PyStr(s) == [t |-> "str", v |-> s]
PyNum(n) == [t |-> "num", v |-> n]

\* os.getenv(name, default)
getenv(e, name, default) == IF e[name] = None THEN default ELSE PyStr(e[name][1])

\* float(x) and int(x) for x a str or a number
float(x) == IF x.t = "num" THEN Ok(x.v) ELSE FloatOfStr(x.v)
int(x) == IF x.t = "num" THEN Ok(x.v) ELSE IntOfStr(x.v)

\* bool(x) is False for the floats 0.0 and -0.0
IsZero(f) == f.kind = "fin" /\ f.m = 0

\* Python's `x or d` for an Optional int x and for an Optional float x: None
\* and zero are both falsy
IntOrDefault(x, d) == IF x = None \/ x[1] = 0 THEN d ELSE x[1]
FloatOrDefault(x, d) == IF x = None \/ IsZero(x[1]) THEN d ELSE x[1]

(***************************************************************************)
(* Defaults.                                                               *)
(***************************************************************************)
DEFAULT_URL ==
    <<"h", "t", "t", "p", "s", ":", "/", "/", "u", "n", "g", "v", "e", "t", "e", "n",
      "s", "k", "a", "p", "s", "s", "p", "o", "r", "t", ".", "s", "e", "/", "e", "v",
      "e", "n", "t", "/", "r", "o", "b", "o", "t", "i", "k", "l", "a", "g", "e", "r",
      "-", "n", "o", "r", "r", "k", "o", "p", "i", "n", "g", "-", "2", "0", "2", "6",
      "/">>
DEFAULT_OUT_CSV ==
    <<"d", "a", "t", "a", "/", "v", "i", "s", "i", "t", "o", "r", "_", "c", "o", "u",
      "n", "t", "e", "r", ".", "c", "s", "v">>
DEFAULT_USER_AGENT ==
    <<"M", "o", "z", "i", "l", "l", "a", "/", "5", ".", "0", " ", "(", "X", "1", "1",
      ";", " ", "L", "i", "n", "u", "x", " ", "x", "8", "6", "_", "6", "4", ")", " ",
      "A", "p", "p", "l", "e", "W", "e", "b", "K", "i", "t", "/", "5", "3", "7", ".",
      "3", "6", " ", "(", "K", "H", "T", "M", "L", ",", " ", "l", "i", "k", "e", " ",
      "G", "e", "c", "k", "o", ")", " ", "C", "h", "r", "o", "m", "e", "/", "1", "2",
      "2", ".", "0", " ", "S", "a", "f", "a", "r", "i", "/", "5", "3", "7", ".", "3",
      "6">>
\* 10.0, 30.0, 3 and 1.5
DEFAULT_CONNECT_TIMEOUT == Fin(FALSE, 1, 1)
DEFAULT_READ_TIMEOUT == Fin(FALSE, 3, 1)
DEFAULT_RETRIES == 3
DEFAULT_BACKOFF == Fin(FALSE, 15, -1)

\* the dataclass defaults
ScrapeConfig == [url |-> DEFAULT_URL, out_csv |-> DEFAULT_OUT_CSV,
                 user_agent |-> DEFAULT_USER_AGENT,
                 connect_timeout |-> DEFAULT_CONNECT_TIMEOUT,
                 read_timeout |-> DEFAULT_READ_TIMEOUT,
                 retries |-> DEFAULT_RETRIES, backoff |-> DEFAULT_BACKOFF]

(***************************************************************************)
(* ScrapeConfig.from_env_and_args                                          *)
(***************************************************************************)
\* pick(arg_val, env_name, default)
pick(arg_val, env_val, default) ==
    IF arg_val # None /\ arg_val[1] # <<>> THEN arg_val[1]
    ELSE IF env_val # None /\ env_val[1] # <<>> THEN env_val[1]
    ELSE default

\* env_float(name, default)
env_float(e, name, default) ==
    LET r == float(getenv(e, name, PyNum(default)))
    IN  IF r.ok THEN r.v ELSE default

\* int(os.getenv("SCRAPER_RETRIES", args.retries or 3)): Ok(n) or ValueError
ResolveRetries(a, e) ==
    int(getenv(e, "SCRAPER_RETRIES", PyNum(IntOrDefault(a.retries, DEFAULT_RETRIES))))

\* The result of from_env_and_args: [ok |-> TRUE, v |-> the configuration], or
\* ValueError when the int() of line 67 raises.
from_env_and_args(a, e) ==
    LET r == ResolveRetries(a, e)
    IN  IF ~r.ok THEN ValueError
        ELSE Ok([url |-> pick(a.url, e.SCRAPER_URL, DEFAULT_URL),
                 out_csv |-> pick(a.out, e.SCRAPER_OUT_CSV, DEFAULT_OUT_CSV),
                 user_agent |-> pick(a.user_agent, e.SCRAPER_USER_AGENT, DEFAULT_USER_AGENT),
                 connect_timeout |->
                     env_float(e, "SCRAPER_CONNECT_TIMEOUT",
                               FloatOrDefault(a.connect_timeout, DEFAULT_CONNECT_TIMEOUT)),
                 read_timeout |->
                     env_float(e, "SCRAPER_READ_TIMEOUT",
                               FloatOrDefault(a.read_timeout, DEFAULT_READ_TIMEOUT)),
                 retries |-> r.v,
                 backoff |->
                     env_float(e, "SCRAPER_BACKOFF",
                               FloatOrDefault(a.backoff, DEFAULT_BACKOFF))])

(***************************************************************************)
(* extract_counter                                                         *)
(*                                                                         *)
(* A parsed document is the sequence of its elements in document order;    *)
(* an element is [tag, classes, strings], strings being its text nodes in  *)
(* document order.                                                         *)
(***************************************************************************)
MARKER_TAG == "div"
MARKER_CLASS == "wpem-viewed-event"

\* soup.select_one("div.wpem-viewed-event"): the first matching element, or None
select_one(doc) ==
    LET hits == {i \in 1..Len(doc) :
                    doc[i].tag = MARKER_TAG /\ MARKER_CLASS \in doc[i].classes}
    IN  IF hits = {} THEN None
        ELSE Some(doc[Least(hits)])

RECURSIVE Join(_, _)
Join(strs, sep) == IF strs = <<>> THEN <<>>
                   ELSE IF Len(strs) = 1 THEN strs[1]
                   ELSE strs[1] \o sep \o Join(Tail(strs), sep)

RECURSIVE StrippedNonEmpty(_)
StrippedNonEmpty(strs) ==
    IF strs = <<>> THEN <<>>
    ELSE LET h == Strip(Head(strs))
         IN  (IF h = <<>> THEN <<>> ELSE <<h>>) \o StrippedNonEmpty(Tail(strs))

\* el.get_text(" ", strip=True): every text node stripped, the empty ones
\* dropped, the rest joined by one space
get_text(el) == Join(StrippedNonEmpty(el.strings), <<" ">>)

\* the lookahead body .*\d at position j: a digit at some k >= j with no line
\* feed in j..k-1 ("." matches anything but a line feed)
LookaheadDigit(text, j) ==
    \E k \in j..Len(text) :
        text[k] \in Digits /\ \A m \in j..(k - 1) : text[m] # "\n"

\* (\d+)(?!.*\d) matches n characters at position i
MatchAt(text, i, n) ==
    /\ n >= 1 /\ i + n - 1 <= Len(text)
    /\ \A k \in i..(i + n - 1) : text[k] \in Digits
    /\ ~LookaheadDigit(text, i + n)

\* re.search(r"(\d+)(?!.*\d)", text): group 1 of the leftmost match, taking the
\* longest \d+ that matches there; None without a match
re_search(text) ==
    LET starts == {i \in 1..Len(text) : \E n \in 1..Len(text) : MatchAt(text, i, n)}
    IN  IF starts = {} THEN None
        ELSE LET i == Least(starts)
                 ns == {n \in 1..Len(text) : MatchAt(text, i, n)}
                 n == CHOOSE x \in ns : \A y \in ns : x >= y
             IN  Some(SubSeq(text, i, i + n - 1))

\* extract_counter(html): Some(int) or None
extract_counter(doc) ==
    LET el == select_one(doc)
    IN  IF el = None THEN None
        ELSE LET m == re_search(get_text(el[1]))
             IN  IF m = None THEN None ELSE Some(DigitsValue(m[1]))

(***************************************************************************)
(* append_csv                                                              *)
(*                                                                         *)
(* A file is [exists, bytes], bytes being its content.  The parent         *)
(* directory of the output path is dirExists.                              *)
(***************************************************************************)
HEADER == <<<<"t", "i", "m", "e", "s", "t", "a", "m", "p", "_", "u", "t", "c">>, <<"v", "a", "l", "u", "e">>, <<"u", "r", "l">>>>

RECURSIVE NatText(_)
NatText(n) == IF n < 10 THEN <<AsciiDigits[n + 1]>>
              ELSE NatText(n \div 10) \o <<AsciiDigits[(n % 10) + 1]>>

\* str(n) for an int n
IntText(n) == IF n < 0 THEN <<"-">> \o NatText(-n) ELSE NatText(n)

\* csv.writer's text for the value cell: None is the empty cell, an int its
\* decimal text
csv_cell(v) == IF v = None THEN <<>> ELSE IntText(v[1])

\* [timestamp_utc, value, url] as handed to w.writerow
Row(timestamp_utc, v, url) == <<timestamp_utc, csv_cell(v), url>>

\* the characters that make csv.writer quote a field (QUOTE_MINIMAL)
CsvSpecial == {",", "\"", "\r", "\n"}

RECURSIVE DoubledQuotes(_)
DoubledQuotes(s) ==
    IF s = <<>> THEN <<>>
    ELSE IF Len(s) = 1 THEN (IF s[1] = "\"" THEN <<"\"", "\"">> ELSE s)
    ELSE DoubledQuotes(SubSeq(s, 1, Len(s) \div 2))
         \o DoubledQuotes(SubSeq(s, (Len(s) \div 2) + 1, Len(s)))

\* one field as csv.writer writes it
csv_field(s) ==
    IF \E i \in 1..Len(s) : s[i] \in CsvSpecial
    THEN <<"\"">> \o DoubledQuotes(s) \o <<"\"">>
    ELSE s

\* w.writerow(cells): the fields joined by commas, and the line terminator
writerow(cells) ==
    Join([i \in 1..Len(cells) |-> csv_field(cells[i])], <<",">>) \o <<"\r", "\n">>

\* new_file = not os.path.exists(out_csv)
NewFileAlways(f) == TRUE
new_file(f) == ~f.exists

\* a byte of 128 or more
Byte(n) == "byte(" \o ToString(n) \o ")"

\* the UTF-8 encoding of the code point n
utf8(n) ==
    IF n < 128 THEN <<Chr(n)>>
    ELSE IF n < 2048 THEN <<Byte(192 + (n \div 64)), Byte(128 + (n % 64))>>
    ELSE IF n < 65536
    THEN <<Byte(224 + (n \div 4096)), Byte(128 + ((n \div 64) % 64)),
          Byte(128 + (n % 64))>>
    ELSE <<Byte(240 + (n \div 262144)), Byte(128 + ((n \div 4096) % 64)),
           Byte(128 + ((n \div 64) % 64)), Byte(128 + (n % 64))>>

\* str.encode("utf-8"), as the file object opened with encoding="utf-8" and
\* newline="" encodes what is written to it
RECURSIVE encode(_)
encode(s) ==
    IF \A i \in 1..Len(s) : s[i] \notin Named THEN s
    ELSE IF Len(s) = 1 THEN utf8(Ord[s[1]])
    ELSE encode(SubSeq(s, 1, Len(s) \div 2))
         \o encode(SubSeq(s, (Len(s) \div 2) + 1, Len(s)))

\* what the with-block has handed to the file object when it is closed, as
\* bytes
Buffered(f, timestamp_utc, v, url) ==
    encode((IF new_file(f) THEN writerow(HEADER) ELSE <<>>)
           \o writerow(Row(timestamp_utc, v, url)))

NoFault == [step |-> "none", kept |-> 0]

\* The OSError outcomes of one append of the buffer buf: os.makedirs fails
\* (only when the directory is missing), open() fails, the flush at close
\* fails after `kept` bytes of the buffer, fewer than all and at most n, or
\* close fails after the flush has written the whole buffer.
Faults(d, buf, n) ==
    {NoFault}
    \cup (IF d THEN {} ELSE {[step |-> "makedirs", kept |-> 0]})
    \cup {[step |-> "open", kept |-> 0]}
    \cup {[step |-> "write", kept |-> k] : k \in {j \in 0..n : j < Len(buf)}}
    \cup {[step |-> "close", kept |-> Len(buf)]}

\* append_csv(out_csv, timestamp_utc, value, url) under fault ft:
\* [ok, dir, file], ok = FALSE standing for the OSError raised
append_csv(d, f, timestamp_utc, v, url, ft) ==
    LET buf == Buffered(f, timestamp_utc, v, url)
    IN  CASE ft.step = "makedirs" -> [ok |-> FALSE, dir |-> d, file |-> f]
          [] ft.step = "open" -> [ok |-> FALSE, dir |-> TRUE, file |-> f]
          [] ft.step \in {"write", "close"} ->
                [ok |-> FALSE, dir |-> TRUE,
                 file |-> [exists |-> TRUE,
                           bytes |-> f.bytes \o SubSeq(buf, 1, ft.kept)]]
          [] OTHER -> [ok |-> TRUE, dir |-> TRUE,
                       file |-> [exists |-> TRUE, bytes |-> f.bytes \o buf]]

(***************************************************************************)
(* build_session and the retrying GET                                      *)
(*                                                                         *)
(* A server answer to one attempt is [kind, code]: kind "status" with the  *)
(* HTTP status code, or kind "connect" / "read" for a transport failure.   *)
(* Answers carry no Retry-After header and redirects are already followed. *)
(***************************************************************************)
ForcelistWithout503 == {429, 500, 502, 504}
status_forcelist == {429, 500, 502, 503, 504}

\* Retry(total=cfg.retries, connect=cfg.retries, read=cfg.retries, ...)
build_session(c) == [total |-> c.retries, connect |-> c.retries, read |-> c.retries]

\* Retry.increment: total always, connect / read by the kind of failure
increment(r, kind) ==
    [total |-> r.total - 1,
     connect |-> IF kind = "connect" THEN r.connect - 1 ELSE r.connect,
     read |-> IF kind = "read" THEN r.read - 1 ELSE r.read]

\* Retry.is_exhausted: some counter ran below zero
ExhaustedAtZero(r) == r.total <= 0 \/ r.connect <= 0 \/ r.read <= 0
is_exhausted(r) == r.total < 0 \/ r.connect < 0 \/ r.read < 0

\* Retry.is_retry for a GET without Retry-After
is_retry(code) == code \in status_forcelist

\* response.raise_for_status() raises HTTPError
raise_for_status(code) == 400 <= code /\ code < 600

StatusResp(code) == [kind |-> "status", code |-> code]
TransportResp(kind) == [kind |-> kind, code |-> 0]
Answers == {StatusResp(c) : c \in {200, 304, 404, 503}}
           \cup {TransportResp("read")}

\* One attempt answered by `a` under retry state r: "retry" (another attempt
\* follows), "error" (requests raises a RequestException: retries exhausted on
\* a transport failure), or "response" (session.get returns the response).
AttemptOutcome(r, a) ==
    IF a.kind # "status"
    THEN IF is_exhausted(increment(r, a.kind)) THEN "error" ELSE "retry"
    ELSE IF is_retry(a.code) /\ ~is_exhausted(increment(r, "status")) THEN "retry"
    ELSE "response"

(***************************************************************************)
(* Documents served in the runs of main.                                   *)
(***************************************************************************)
SAMPLE_TEXT ==
    <<"2", "0", "5", " ", "2", "0", "5", " ", "p", "e", "o", "p", "l", "e", " ", "v",
      "i", "e", "w", "e", "d", " ", "t", "h", "i", "s", " ", "e", "v", "e", "n", "t",
      ".">>
Element(tag, classes, strings) == [tag |-> tag, classes |-> classes, strings |-> strings]
SampleDoc == <<Element("h1", {}, <<<<"R", "o", "b", "o", "t">>>>),
               Element(MARKER_TAG, {MARKER_CLASS}, <<SAMPLE_TEXT>>)>>
HiddenDoc == <<Element(MARKER_TAG, {MARKER_CLASS}, <<<<"H", "i", "d", "d", "e", "n">>>>)>>
EmptyDoc == <<>>
\* the bodies a response with the given status carries
Bodies(code) == IF code = 200 THEN {SampleDoc, HiddenDoc} ELSE {EmptyDoc}

(***************************************************************************)
(* main                                                                    *)
(***************************************************************************)
NoArgs == [url |-> None, out |-> None, user_agent |-> None, connect_timeout |-> None,
           read_timeout |-> None, retries |-> None, backoff |-> None]
NoEnv == [SCRAPER_URL |-> None, SCRAPER_OUT_CSV |-> None, SCRAPER_USER_AGENT |-> None,
          SCRAPER_CONNECT_TIMEOUT |-> None, SCRAPER_READ_TIMEOUT |-> None,
          SCRAPER_RETRIES |-> None, SCRAPER_BACKOFF |-> None]

URL_A == <<"h", "t", "t", "p", "s", ":", "/", "/", "e", "x", "a", "m", "p", "l", "e",
           ".", "c", "o", "m", "/", "a">>
URL_B == <<"h", "t", "t", "p", "s", ":", "/", "/", "e", "x", "a", "m", "p", "l", "e",
           ".", "c", "o", "m", "/", "b">>

\* command lines and environments of the runs of main
MainArgs == {[NoArgs EXCEPT !.retries = r] :
                r \in {None} \cup {Some(n) : n \in 0..MaxRetries}}
MainEnvs == {[NoEnv EXCEPT !.SCRAPER_RETRIES = r] :
                r \in {None, Some(<<"x">>), Some(<<"0">>)}}
            \cup {[NoEnv EXCEPT !.SCRAPER_BACKOFF = Some(<<"x">>)]}
\* a run has options on its command line or variables in its environment
MainInputs == (MainArgs \X {NoEnv}) \cup ({NoArgs} \X MainEnvs)

NoFile == [exists |-> FALSE, bytes |-> <<>>]
NoRetry == [total |-> 0, connect |-> 0, read |-> 0]

\* a datetime in UTC
datetime(year, month, day, hour, minute, second) ==
    [year |-> year, month |-> month, day |-> day,
     hour |-> hour, minute |-> minute, second |-> second]

\* n in decimal, zero-padded to w digits
RECURSIVE ZeroPadded(_, _)
ZeroPadded(n, w) ==
    IF w = 0 THEN <<>> ELSE ZeroPadded(n \div 10, w - 1) \o <<AsciiDigits[(n % 10) + 1]>>

\* dt.isoformat(timespec="seconds") of a datetime in UTC
isoformat(dt) ==
    ZeroPadded(dt.year, 4) \o <<"-">> \o ZeroPadded(dt.month, 2) \o <<"-">>
    \o ZeroPadded(dt.day, 2) \o <<"T">> \o ZeroPadded(dt.hour, 2) \o <<":">>
    \o ZeroPadded(dt.minute, 2) \o <<":">> \o ZeroPadded(dt.second, 2)
    \o <<"+", "0", "0", ":", "0", "0">>

\* The readings datetime.now(timezone.utc) gives the runs of main.  The clock
\* is the wall clock: two runs can read the same second, and a later run an
\* earlier time.
Clock == {datetime(2026, 1, 5, 9, 7, 3), datetime(2026, 10, 30, 18, 33, 13)}

Init ==
    /\ pc = "idle"
    /\ args = NoArgs /\ env = NoEnv /\ cfg = ScrapeConfig
    /\ raised = FALSE /\ status = 0
    /\ retry = NoRetry /\ responses = <<>> /\ response = None
    /\ html = EmptyDoc /\ value = None /\ ts = <<>>
    /\ dirExists = FALSE /\ file = NoFile /\ file0 = NoFile
    /\ runs = 0 /\ appended = <<>> /\ writeFailed = FALSE /\ failStep = "none"

\* main up to the first request: parse_args, from_env_and_args, build_session,
\* the timestamp, the empty-URL check.  A ValueError out of from_env_and_args
\* is caught nowhere: it ends the process (exit status 1) with `raised` set.
Start(a, e, now) ==
    /\ pc = "idle" /\ runs < MaxRuns
    /\ args' = a /\ env' = e
    /\ runs' = runs + 1
    /\ file0' = file
    /\ LET r == from_env_and_args(a, e)
       IN  IF ~r.ok
           THEN /\ raised' = TRUE /\ status' = 1 /\ pc' = "done"
                /\ UNCHANGED <<cfg, retry, ts>>
           ELSE /\ cfg' = r.v /\ raised' = FALSE
                /\ retry' = build_session(r.v)
                /\ ts' = isoformat(now)
                /\ IF r.v.url = <<>>
                   THEN status' = 1 /\ pc' = "done"
                   ELSE status' = 0 /\ pc' = "fetching"
    /\ UNCHANGED <<responses, response, html, value, dirExists, file, appended,
                   writeFailed, failStep>>

\* the exit status main returns once append_csv is over
StatusAfterWrite(ok) == IF ok THEN 0 ELSE 1

\* one attempt of session.get, answered by a; on the last one the rest of the
\* try block (raise_for_status) and extract_counter
Attempt(a, body) ==
    /\ pc = "fetching"
    /\ responses' = Append(responses, a)
    /\ LET o == AttemptOutcome(retry, a)
       IN  CASE o = "retry" ->
                   /\ retry' = increment(retry, a.kind)
                   /\ UNCHANGED <<pc, status, response, html, value>>
             [] o = "error" ->
                   /\ status' = 1 /\ pc' = "done"
                   /\ UNCHANGED <<retry, response, html, value>>
             [] OTHER ->
                   /\ response' = Some(a.code)
                   /\ body \in Bodies(a.code)
                   /\ IF raise_for_status(a.code)
                      THEN /\ status' = 1 /\ pc' = "done"
                           /\ UNCHANGED <<html, value>>
                      ELSE /\ html' = body
                           /\ value' = extract_counter(body)
                           /\ pc' = "writing"
                           /\ UNCHANGED status
                   /\ UNCHANGED retry
    /\ UNCHANGED <<args, env, cfg, raised, ts, dirExists, file, file0, runs, appended,
                   writeFailed, failStep>>

\* the buffer of the append_csv call of the current run
Pending == Buffered(file, ts, value, cfg.url)

\* append_csv under fault ft, and main's return
Write(ft) ==
    /\ pc = "writing"
    /\ LET w == append_csv(dirExists, file, ts, value, cfg.url, ft)
       IN  /\ dirExists' = w.dir
           /\ file' = w.file
           /\ status' = StatusAfterWrite(w.ok)
           /\ appended' = IF w.ok THEN Append(appended, Row(ts, value, cfg.url))
                          ELSE appended
           /\ writeFailed' = (writeFailed \/ ~w.ok)
    /\ failStep' = ft.step
    \* the log of the server's answers covers the fetch only
    /\ responses' = <<>>
    /\ pc' = "done"
    /\ UNCHANGED <<args, env, cfg, raised, retry, response, html, value, ts, file0,
                   runs>>

\* the process ends; the next invocation starts from the file as it was left
Exit ==
    /\ pc = "done"
    /\ pc' = "idle"
    /\ args' = NoArgs /\ env' = NoEnv /\ cfg' = ScrapeConfig
    /\ raised' = FALSE /\ status' = 0
    /\ retry' = NoRetry /\ responses' = <<>> /\ response' = None
    /\ html' = EmptyDoc /\ value' = None /\ ts' = <<>>
    /\ failStep' = "none"
    /\ file0' = file
    /\ UNCHANGED <<dirExists, file, runs, appended, writeFailed>>

Next ==
    \/ \E i \in MainInputs, now \in Clock : Start(i[1], i[2], now)
    \/ \E a \in Answers, body \in {SampleDoc, HiddenDoc, EmptyDoc} : Attempt(a, body)
    \/ pc = "writing" /\ \E ft \in Faults(dirExists, Pending, MaxCut) : Write(ft)
    \/ Exit

Spec == Init /\ [][Next]_vars

(***************************************************************************)
(* The runs of main against a server that answers 200 at once, with a      *)
(* flush that can fail after any number of bytes.                          *)
(***************************************************************************)
URL_COMMA == <<"h", "t", "t", "p", ":", "/", "/", "h", "/", "?", "q", "=", "a", ",", "b">>
URL_E_ACUTE == <<"h", "t", "t", "p", ":", "/", "/", "h", "/">> \o <<Chr(233)>>
WriteArgs == {[NoArgs EXCEPT !.url = Some(u)] : u \in {URL_COMMA, URL_E_ACUTE}}

NextWrite ==
    \/ \E a \in WriteArgs, now \in Clock : Start(a, NoEnv, now)
    \/ \E body \in {SampleDoc, HiddenDoc} : Attempt(StatusResp(200), body)
    \/ pc = "writing" /\ \E ft \in Faults(dirExists, Pending, Len(Pending)) : Write(ft)
    \/ Exit

SpecWrite == Init /\ [][NextWrite]_vars

(***************************************************************************)
(* Configuration resolution on its own: from_env_and_args applied to one   *)
(* command line and one environment.                                       *)
(***************************************************************************)
\* Command lines and environments: the three text fields vary together and the
\* four numeric fields vary together.
TextArgs ==
    {[NoArgs EXCEPT !.url = u, !.out = o, !.user_agent = g] :
        u \in {None, Some(<<>>), Some(URL_A)},
        o \in {None, Some(<<"o", "u", "t", ".", "c", "s", "v">>)},
        g \in {None, Some(<<"a", "g", "e", "n", "t", "/", "1">>)}}
TextEnvs ==
    {[NoEnv EXCEPT !.SCRAPER_URL = u, !.SCRAPER_OUT_CSV = o, !.SCRAPER_USER_AGENT = g] :
        u \in {None, Some(<<>>), Some(URL_B)},
        o \in {None, Some(<<"e", "n", "v", ".", "c", "s", "v">>)},
        g \in {None, Some(<<"a", "g", "e", "n", "t", "/", "2">>)}}
\* --connect-timeout 5, --read-timeout 20, --retries 0 or 5, --backoff 0 or 2
NumericArgs ==
    {[NoArgs EXCEPT !.connect_timeout = c, !.read_timeout = r, !.retries = n,
                    !.backoff = b] :
        c \in {None, Some(Fin(FALSE, 5, 0))},
        r \in {None, Some(Fin(FALSE, 2, 1))},
        n \in {None, Some(0), Some(5)},
        b \in {None, Some(Fin(FALSE, 0, 0)), Some(Fin(FALSE, 2, 0))}}
NumericEnvs ==
    {[NoEnv EXCEPT !.SCRAPER_CONNECT_TIMEOUT = c, !.SCRAPER_READ_TIMEOUT = r,
                   !.SCRAPER_RETRIES = n, !.SCRAPER_BACKOFF = b] :
        c \in {None, Some(<<"x">>), Some(<<"7">>), Some(<<"1", "e", "1">>)},
        r \in {None, Some(<<>>), Some(<<"4", ".", "5">>), Some(<<"i", "n", "f">>)},
        n \in {None, Some(<<>>), Some(<<"x">>), Some(<<"2">>), Some(<<"\t", "1", "_", "0">>),
               Some(<<Chr(1635)>>)},
        b \in {None, Some(<<"x">>), Some(<<" ", "0", ".", "5">>), Some(<<".", "0", "5">>), Some(<<"1", "e",
                                                                            "-", "4",
                                                                            "0", "0">>)}}
ConfigInputs == (TextArgs \X TextEnvs) \cup (NumericArgs \X NumericEnvs)

InitConfig ==
    /\ pc = "config"
    /\ args = NoArgs /\ env = NoEnv /\ cfg = ScrapeConfig
    /\ raised = FALSE /\ status = 0
    /\ retry = NoRetry /\ responses = <<>> /\ response = None
    /\ html = EmptyDoc /\ value = None /\ ts = <<>>
    /\ dirExists = FALSE /\ file = NoFile /\ file0 = NoFile
    /\ runs = 0 /\ appended = <<>> /\ writeFailed = FALSE /\ failStep = "none"

\* cfg = ScrapeConfig.from_env_and_args(args)
Resolve(a, e) ==
    /\ pc = "config"
    /\ pc' = "resolved"
    /\ args' = a /\ env' = e
    /\ LET r == from_env_and_args(a, e)
       IN  /\ raised' = ~r.ok
           /\ cfg' = IF r.ok THEN r.v ELSE cfg
    /\ UNCHANGED <<status, retry, responses, response, html, value, ts, dirExists,
                   file, file0, runs, appended, writeFailed, failStep>>

NextConfig == pc = "config" /\ \E i \in ConfigInputs : Resolve(i[1], i[2])

SpecConfig == InitConfig /\ [][NextConfig]_vars

(***************************************************************************)
(* extract_counter on its own, over documents whose marker element holds   *)
(* up to MaxNodes text nodes of up to MaxStrLen characters.                *)
(***************************************************************************)
\* three digits (one of them ARABIC-INDIC DIGIT THREE), a letter, and three
\* whitespace characters
Alphabet == {"1", "2", Chr(1635), "a", " ", "\n", "\t"}
Strings == UNION {[1..k -> Alphabet] : k \in 0..MaxStrLen}
NodeLists == UNION {[1..k -> Strings] : k \in 0..MaxNodes}
OtherElement == Element("p", {}, <<<<"9">>>>)
ExtractDocs ==
    {<<OtherElement, Element(MARKER_TAG, {MARKER_CLASS}, ns)>> : ns \in NodeLists}
    \cup {<<OtherElement>>, <<>>, <<Element("span", {MARKER_CLASS}, <<<<"1">>>>)>>}

InitExtract ==
    /\ pc = "extract"
    /\ html \in ExtractDocs
    /\ args = NoArgs /\ env = NoEnv /\ cfg = ScrapeConfig
    /\ raised = FALSE /\ status = 0
    /\ retry = NoRetry /\ responses = <<>> /\ response = None
    /\ value = None /\ ts = <<>>
    /\ dirExists = FALSE /\ file = NoFile /\ file0 = NoFile
    /\ runs = 0 /\ appended = <<>> /\ writeFailed = FALSE /\ failStep = "none"

\* value = extract_counter(response.text)
Extract ==
    /\ pc = "extract"
    /\ pc' = "extracted"
    /\ value' = extract_counter(html)
    /\ UNCHANGED <<args, env, cfg, raised, status, retry, responses, response, html,
                   ts, dirExists, file, file0, runs, appended, writeFailed, failStep>>

NextExtract == Extract

SpecExtract == InitExtract /\ [][NextExtract]_vars

(***************************************************************************)
(* Properties.                                                             *)
(***************************************************************************)
Is2xx(code) == 200 <= code /\ code < 300

\* the content of a file holding the given rows
RECURSIVE Lines(_)
Lines(rows) ==
    IF rows = <<>> THEN <<>> ELSE encode(writerow(Head(rows))) \o Lines(Tail(rows))

\* the positions of a content at which a given part occurs
Occurrences(content, part) ==
    {p \in 1..(Len(content) - Len(part) + 1) :
        SubSeq(content, p, p + Len(part) - 1) = part}

\* the run ended in the fetch: the server's answers are still on record
FetchEndedInFailure == pc = "done" /\ ~raised /\ responses # <<>>
\* ... by a transport failure with the retries exhausted
TransportFailure == FetchEndedInFailure /\ response = None
\* append_csv was called in this run and returned normally
WriteSucceeded == pc = "done" /\ response # None /\ responses = <<>> /\ failStep = "none"
\* append_csv was called in this run and raised OSError
WriteFailed == pc = "done" /\ failStep # "none"

\* C1: when the fetch fails (transport failure after the retries are exhausted,
\* or a final status that is not 2xx), main returns non-zero and the CSV file
\* is exactly as the run found it.
C1_NonZeroAndUntouchedOnNon2xx ==
    (pc = "done" /\ ~raised
     /\ (TransportFailure \/ (response # None /\ ~Is2xx(response[1]))))
    => (status # 0 /\ file = file0)

NumericEnvReadable(ev, isInt) ==
    \/ ev = None
    \/ ev[1] = <<>>
    \/ IF isInt THEN IntOfStr(ev[1]).ok ELSE FloatOfStr(ev[1]).ok
ExpectedText(a, ev, d) ==
    IF a # None /\ a[1] # <<>> THEN a[1]
    ELSE IF ev # None /\ ev[1] # <<>> THEN ev[1] ELSE d
ExpectedFloat(a, ev, d) ==
    IF a # None THEN a[1]
    ELSE IF ev # None /\ ev[1] # <<>> THEN FloatOfStr(ev[1]).v ELSE d
ExpectedInt(a, ev, d) ==
    IF a # None THEN a[1]
    ELSE IF ev # None /\ ev[1] # <<>> THEN IntOfStr(ev[1]).v ELSE d

NotZeroInt(a) == a = None \/ a[1] # 0
NotZeroFloat(a) == a = None \/ ~IsZero(a[1])

\* C2: every field resolves to the explicit value when one is given, otherwise
\* to the non-empty environment variable, otherwise to the default.  Stated for
\* numeric environment variables that are unset, empty or well-formed numbers
\* (the others are C3's case) and explicit numbers other than 0 (C10's case).
C2_ExplicitThenEnvThenDefault ==
    (/\ pc = "resolved" /\ ~raised
     /\ NotZeroFloat(args.connect_timeout) /\ NotZeroFloat(args.read_timeout)
     /\ NotZeroInt(args.retries) /\ NotZeroFloat(args.backoff)
     /\ NumericEnvReadable(env.SCRAPER_CONNECT_TIMEOUT, FALSE)
     /\ NumericEnvReadable(env.SCRAPER_READ_TIMEOUT, FALSE)
     /\ NumericEnvReadable(env.SCRAPER_RETRIES, TRUE)
     /\ NumericEnvReadable(env.SCRAPER_BACKOFF, FALSE))
    => /\ cfg.url = ExpectedText(args.url, env.SCRAPER_URL, DEFAULT_URL)
       /\ cfg.out_csv = ExpectedText(args.out, env.SCRAPER_OUT_CSV, DEFAULT_OUT_CSV)
       /\ cfg.user_agent
            = ExpectedText(args.user_agent, env.SCRAPER_USER_AGENT, DEFAULT_USER_AGENT)
       /\ cfg.connect_timeout
            = ExpectedFloat(args.connect_timeout, env.SCRAPER_CONNECT_TIMEOUT,
                            DEFAULT_CONNECT_TIMEOUT)
       /\ cfg.read_timeout
            = ExpectedFloat(args.read_timeout, env.SCRAPER_READ_TIMEOUT,
                            DEFAULT_READ_TIMEOUT)
       /\ cfg.retries = ExpectedInt(args.retries, env.SCRAPER_RETRIES, DEFAULT_RETRIES)
       /\ cfg.backoff = ExpectedFloat(args.backoff, env.SCRAPER_BACKOFF, DEFAULT_BACKOFF)

Unparsable(ev, isInt) ==
    ev # None /\ ~(IF isInt THEN IntOfStr(ev[1]).ok ELSE FloatOfStr(ev[1]).ok)
ExplicitOrDefault(a, d) == IF a # None THEN a[1] ELSE d

\* C3: a numeric environment variable that does not parse does not fail the
\* run: no exception leaves main, the field takes the explicit value if given,
\* else the default, and main goes on to the fetch.
C3_UnparsableEnvFallsBack ==
    pc # "idle" =>
      /\ (Unparsable(env.SCRAPER_CONNECT_TIMEOUT, FALSE) =>
            ~raised /\ cfg.connect_timeout
                         = ExplicitOrDefault(args.connect_timeout, DEFAULT_CONNECT_TIMEOUT))
      /\ (Unparsable(env.SCRAPER_READ_TIMEOUT, FALSE) =>
            ~raised /\ cfg.read_timeout
                         = ExplicitOrDefault(args.read_timeout, DEFAULT_READ_TIMEOUT))
      /\ (Unparsable(env.SCRAPER_BACKOFF, FALSE) =>
            ~raised /\ cfg.backoff = ExplicitOrDefault(args.backoff, DEFAULT_BACKOFF))
      /\ (Unparsable(env.SCRAPER_RETRIES, TRUE) =>
            ~raised /\ cfg.retries = ExplicitOrDefault(args.retries, DEFAULT_RETRIES))

AllRetryableStatuses(log) ==
    \A i \in 1..Len(log) : log[i].kind = "status" /\ log[i].code \in status_forcelist

\* C4 as claimed: against a server that answers every request with a retryable
\* status, a fetch with retry count R >= 1 never makes more than R attempts and
\* ends in failure after exactly R.
C4_ExactlyRAttempts ==
    (~raised /\ cfg.retries >= 1 /\ responses # <<>> /\ AllRetryableStatuses(responses))
    => /\ Len(responses) <= cfg.retries
       /\ (pc # "fetching" => Len(responses) = cfg.retries /\ status # 0)

\* C4 as amended: against a server that answers every request with a retryable
\* status, a fetch with retry count R >= 0 never makes more than R + 1 attempts
\* (the first request and R retries) and ends in failure after exactly R + 1;
\* no fetch, whatever the answers, makes more than R + 1 attempts.
C4_ExactlyRPlusOneAttempts ==
    /\ (~raised /\ pc # "idle") => Len(responses) <= cfg.retries + 1
    /\ (~raised /\ responses # <<>> /\ AllRetryableStatuses(responses))
       => (pc # "fetching" =>
             /\ Len(responses) = cfg.retries + 1
             /\ pc = "done" /\ status # 0)

\* C4's case: retry count 2, every answer a 503, the fetch over
C4_Witness ==
    /\ pc = "done" /\ cfg.retries = 2 /\ status = 1
    /\ responses = <<StatusResp(503), StatusResp(503), StatusResp(503)>>

FailTwiceThenSucceed == <<StatusResp(503), StatusResp(503), StatusResp(200)>>
\* the server has answered as the script says, as far as the script goes
Follows(log, script) ==
    \A i \in 1..Len(log) : i <= Len(script) => log[i] = script[i]

\* C5: with retry count 3 and a server answering 503, 503, 200, the fetch is
\* still retrying before the third attempt, and it ends with the third: success
\* after exactly 3 attempts, no request after the 200.
C5_SuccessOnThirdAttempt ==
    (~raised /\ cfg.retries = 3 /\ responses # <<>>
     /\ Follows(responses, FailTwiceThenSucceed))
    => /\ Len(responses) <= 3
       /\ (Len(responses) < 3 => pc = "fetching")
       /\ (Len(responses) = 3 => pc = "writing" /\ response = Some(200))

C5_Witness ==
    pc = "writing" /\ cfg.retries = 3 /\ responses = FailTwiceThenSucceed

\* C6: while no append has failed, a file that did not exist at first holds,
\* after N successful appends, the header row followed by the N rows in call
\* order (no file at all for N = 0); the header appears once, and it is
\* there exactly when the file is non-empty.
C6_OneHeaderThenRows ==
    ~writeFailed =>
      /\ (appended = <<>> => ~file.exists /\ file.bytes = <<>>)
      /\ (appended # <<>> => file.exists /\ file.bytes = Lines(<<HEADER>> \o appended))
      /\ Occurrences(file.bytes, encode(writerow(HEADER))) \subseteq {1}
      /\ (file.bytes # <<>> <=> 1 \in Occurrences(file.bytes, encode(writerow(HEADER))))

\* C6's case: a second invocation has appended its row to the file the first
\* one made
C6_Witness ==
    /\ ~writeFailed /\ Len(appended) >= 2 /\ pc = "done"
    /\ file0.bytes # <<>>
    /\ file.bytes = file0.bytes \o encode(writerow(appended[Len(appended)]))

\* C7: main returns 0 exactly when the fetch succeeded and the write succeeded,
\* the counter extracted or not; a fetch succeeds when its final status is 2xx
\* and fails on a transport failure or any other final status.
C7_ZeroIffFetched2xxAndWritten ==
    pc = "done" =>
      (status = 0 <=> (response # None /\ Is2xx(response[1]) /\ WriteSucceeded))

\* the last maximal run of decimal digits of a text, as a number
LastDigitRun(text) ==
    LET ds == {i \in 1..Len(text) : text[i] \in Digits}
    IN  IF ds = {} THEN None
        ELSE LET e == CHOOSE i \in ds : \A j \in ds : j <= i
                 bs == {i \in 1..e : \A k \in i..e : text[k] \in Digits}
                 b == CHOOSE i \in bs : \A j \in bs : i <= j
             IN  Some(DigitsValue(SubSeq(text, b, e)))

\* C8: for a document with the marker element, extract_counter returns the
\* value of the last run of digits of the element's text, whatever whitespace
\* separates its parts, and absent when the text has no digit.
C8_LastRunOfDigits ==
    (pc = "extracted" /\ select_one(html) # None)
    => value = LastDigitRun(get_text(select_one(html)[1]))

\* C9: an append that fails, at whatever step, is reported and leaves the
\* file as it was: no new empty file, no header without its row, no partial row.
C9_FailedAppendLeavesFile ==
    WriteFailed => (status # 0 /\ file = file0)

\* C10: with no environment variable set, an explicit retry count of 0 resolves
\* to 0 and an explicit backoff factor of 0 resolves to 0.
C10_ExplicitZeroKept ==
    pc = "resolved" =>
      /\ (args.retries = Some(0) /\ env.SCRAPER_RETRIES = None
            => ~raised /\ cfg.retries = 0)
      /\ (args.backoff = Some(Fin(FALSE, 0, 0)) /\ env.SCRAPER_BACKOFF = None
            => ~raised /\ cfg.backoff = Fin(FALSE, 0, 0))

====
